---------------------------- MODULE Spec2Model ----------------------------
(***************************************************************************)
(* Model of the compositing handler of imtrand (src/src/main.rs):         *)
(* create_document decodes a base image, folds the overlay layers that     *)
(* prepare_layers decodes and resizes onto a clone of it, and encodes the  *)
(* result as JPEG.                                                         *)
(*                                                                         *)
(* Pixels carry an abstract colour and an alpha that is 0 or 255 (the two  *)
(* cases of Rgba::blend that need no arithmetic).  Payload bytes are       *)
(* modelled by what a decoder makes of them: the codec they are valid for  *)
(* and the picture they hold.                                              *)
(***************************************************************************)
EXTENDS Integers, Sequences, FiniteSets, TLC

\* ------------------------------------------------------------ bounds
MaxDim == 3
MaxLayers == 2
NumColours == 2
MaxRequests == 2

\* ------------------------------------------------------------ helpers
Min(a, b) == IF a <= b THEN a ELSE b
Max(a, b) == IF a >= b THEN a ELSE b
\* ceil(a / b) and round-half-up(a / b) for a >= 0, b > 0
CeilDiv(a, b) == (a + b - 1) \div b
RoundDiv(a, b) == (2 * a + b) \div (2 * b)

\* ------------------------------------------------------------ mime strings
NoMime == "<none>"
SvgMime == "image/svg+xml"
PngMime == "image/png"
JpegMime == "image/jpeg"
OtherMimes == {"IMAGE/SVG+XML", "image/svg+xml; charset=utf-8", "text/plain"}
Mimes == {NoMime, SvgMime, PngMime, JpegMime} \cup OtherMimes

\* ImageFormat::from_mime_type: an exact match on the string, None otherwise
from_mime_type(m) ==
    CASE m = PngMime -> "png"
      [] m = JpegMime -> "jpeg"
      [] OTHER -> "none"

\* ------------------------------------------------------------ errors
NoValue == ""
Err(kind, value) == [tag |-> "err", kind |-> kind, value |-> value]
MissingMimeType == Err("MissingMimeType", NoValue)
InvalidMimeType(m) == Err("InvalidMimeType", m)
DecodingFailure == Err("DecodingFailure", NoValue)
EncodingFailure == Err("EncodingFailure", NoValue)
SvgParserFailure == Err("SvgParserFailure", NoValue)
InvalidSize == Err("InvalidSize", NoValue)
Panic == [tag |-> "panic", kind |-> "unwrap on None", value |-> NoValue]
Pending == [tag |-> "none", kind |-> NoValue, value |-> NoValue]
OkResponse == [tag |-> "ok", kind |-> NoValue, value |-> NoValue]

\* ------------------------------------------------------------ pixels and images
Colours == 1 .. NumColours
\* grey levels, disjoint from the colours: Rgba::to_luma of colour c
ToLumaColour(c) == IF c > NumColours THEN c ELSE NumColours + 1 + c
BaseGrey == ToLumaColour(0)
Opaque(c) == [rgb |-> c, a |-> 255]
Clear == [rgb |-> 0, a |-> 0]

Coords(w, h) == (0 .. (w - 1)) \X (0 .. (h - 1))
NoImage == [w |-> 0, h |-> 0, color |-> "none", px |-> <<>>]

\* pictures a payload can hold: a solid colour, fully transparent, a solid
\* colour over a transparent right/bottom part, or a greyscale picture
Patterns == {"solid", "clear", "corner", "grey"}
PatternPixel(pat, c, x, y) ==
    CASE pat = "solid" -> Opaque(c)
      [] pat = "clear" -> Clear
      [] pat = "corner" -> IF x = 0 /\ y = 0 THEN Opaque(c) ELSE Clear
      [] pat = "grey" -> Opaque(BaseGrey)
PatternColor(pat) == IF pat = "grey" THEN "l8" ELSE "rgba8"
Picture(w, h, pat, c) ==
    [w |-> w, h |-> h, color |-> PatternColor(pat),
     px |-> [p \in Coords(w, h) |-> PatternPixel(pat, c, p[1], p[2])]]

\* ------------------------------------------------------------ payloads
\* FieldData<Bytes>: the declared content type (metadata.content_type, NoMime
\* for None) and the bytes, described by the codec they are valid for
\* ("garbage": valid for none) and the picture they hold.  For "svg" w and h
\* are the document's intrinsic size, tree.size().to_int_size().
Bytes(kind, w, h, pat, c) == [kind |-> kind, w |-> w, h |-> h, pat |-> pat, c |-> c]
Garbage == Bytes("garbage", 0, 0, "clear", 0)
FieldData(m, b) == [content_type |-> m, contents |-> b]

\* ------------------------------------------------------------ image crate
Ok(img) == [tag |-> "ok", img |-> img, err |-> Pending]
Fail(e) == [tag |-> "err", img |-> NoImage, err |-> e]
Panicked == [tag |-> "panic", img |-> NoImage, err |-> Panic]

\* ImageReader::set_format(format) followed by decode(): the bytes decode only
\* under the codec they are valid for; a JPEG carries no alpha channel
DecodedColor(b) ==
    IF b.pat = "grey" THEN "l8" ELSE IF b.kind = "jpeg" THEN "rgb8" ELSE "rgba8"
decode(b, format) ==
    IF b.kind = format /\ format \in {"png", "jpeg"}
    THEN Ok([Picture(b.w, b.h, b.pat, b.c) EXCEPT !.color = DecodedColor(b)])
    ELSE Fail(DecodingFailure)

\* image::math::resize_dimensions(width, height, nwidth, nheight, fill = false):
\* the largest size of the same aspect ratio that fits, each side at least 1
resize_dimensions(w, h, nw, nh) ==
    IF nw * h <= nh * w
    THEN <<Max(RoundDiv(w * nw, w), 1), Max(RoundDiv(h * nw, w), 1)>>
    ELSE <<Max(RoundDiv(w * nh, h), 1), Max(RoundDiv(h * nh, h), 1)>>

\* imageops::resize with FilterType::Nearest: destination pixel x samples the
\* source pixel under (x + 0.5) * src / dst
Sample(x, dst, src) == Min(((2 * x + 1) * src) \div (2 * dst), src - 1)
resize_exact(img, nw, nh) ==
    [w |-> nw, h |-> nh, color |-> img.color,
     px |-> [p \in Coords(nw, nh) |->
                img.px[<<Sample(p[1], nw, img.w), Sample(p[2], nh, img.h)>>]]]

\* a resize that stretches to the requested size (DynamicImage::resize_exact)
resize_stretched(img, nw, nh) == resize_exact(img, nw, nh)

\* DynamicImage::resize(nwidth, nheight, filter): keeps the aspect ratio
resize(img, nw, nh) ==
    LET d == resize_dimensions(img.w, img.h, nw, nh)
    IN  resize_exact(img, d[1], d[2])

\* a blend that draws the layer under the canvas
blend_under(bottom, top) == IF bottom.a = 0 THEN top ELSE bottom

\* Rgba::blend for alpha 0 and alpha 255
blend(bottom, top) == IF top.a = 0 THEN bottom ELSE top

\* DynamicImage::get_pixel / put_pixel: pixels travel as Rgba<u8> and are
\* converted to the buffer's own colour type when stored
put_pixel(color, p) ==
    CASE color = "l8" -> Opaque(ToLumaColour(p.rgb))
      [] color = "rgb8" -> Opaque(p.rgb)
      [] OTHER -> p

\* an overlay that hands back the layer in place of the canvas
overlay_replaced(bottom, top) == top

\* imageops::overlay(bottom, top, 0, 0): blends top over bottom where the two
\* overlap; bottom keeps its size and colour type
overlay(bottom, top) ==
    [bottom EXCEPT !.px =
        [p \in Coords(bottom.w, bottom.h) |->
            IF p[1] < top.w /\ p[2] < top.h
            THEN put_pixel(bottom.color, blend(bottom.px[p], top.px[p]))
            ELSE bottom.px[p]]]

\* ------------------------------------------------------------ resvg / tiny-skia
\* usvg::Tree::from_data: only an SVG document parses
from_data(b) == b.kind = "svg"

\* IntSize::from_wh: None when a side is zero
from_wh(w, h) == w > 0 /\ h > 0

\* IntSize::scale_to(to): fit into `to` keeping the aspect ratio, rounding up
scale_to(w0, h0, tw, th) ==
    LET rw == CeilDiv(th * w0, h0)
    IN  IF rw < tw THEN <<rw, th>> ELSE <<tw, CeilDiv(tw * h0, w0)>>

\* resvg::render(tree, Transform::from_scale(W / w0, H / h0), pixmap): the
\* document, stretched over W x H, drawn into the pixmap; the rest of the
\* pixmap stays transparent
render(b, pw, ph, imgW, imgH) ==
    [w |-> pw, h |-> ph, color |-> "rgba8",
     px |-> [p \in Coords(pw, ph) |->
                IF p[1] < imgW /\ p[2] < imgH
                THEN PatternPixel(b.pat, b.c, Sample(p[1], imgW, b.w),
                                  Sample(p[2], imgH, b.h))
                ELSE Clear]]

\* Pixmap::encode_png: the pixmap as the bytes of an RGBA PNG
encode_png(pixmap) == [kind |-> "png", img |-> pixmap]
\* ImageReader with ImageFormat::Png over those bytes
decode_png(bytes) == IF bytes.kind = "png" THEN Ok(bytes.img) ELSE Fail(DecodingFailure)

\* ------------------------------------------------------------ prepare_layers
\* what the closure returns for one layer, with the branch it took
Prepared(r, route) == [tag |-> r.tag, img |-> r.img, err |-> r.err, route |-> route]

\* a vector test that looks at the bytes
is_svg_sniffed(layer) == layer.contents.kind = "svg"

\* line 120: content_type.as_ref().unwrap() == "image/svg+xml"
is_svg(layer) == layer.content_type = SvgMime

\* lines 121-150: the vector branch
prepare_svg(image_witdh, image_height, layer) ==
    IF ~from_data(layer.contents) THEN Fail(SvgParserFailure)
    ELSE IF ~from_wh(image_witdh, image_height) THEN Fail(InvalidSize)
    ELSE
      LET pixmap_size == scale_to(layer.contents.w, layer.contents.h,
                                  image_witdh, image_height)
      IN  IF ~from_wh(pixmap_size[1], pixmap_size[2]) THEN Fail(InvalidSize)
          ELSE
            LET pixmap == render(layer.contents, pixmap_size[1], pixmap_size[2],
                                 image_witdh, image_height)
                overlay_image == decode_png(encode_png(pixmap))
            IN  IF overlay_image.tag # "ok" THEN overlay_image
                ELSE Ok(resize(overlay_image.img, image_witdh, image_height))

\* lines 152-163: the raster branch
prepare_raster(image_witdh, image_height, layer) ==
    LET mimetype == layer.content_type
    IN  IF mimetype = NoMime THEN Fail(MissingMimeType)
        ELSE IF from_mime_type(mimetype) = "none" THEN Fail(InvalidMimeType(mimetype))
        ELSE
          LET overlay_image == decode(layer.contents, from_mime_type(mimetype))
          IN  IF overlay_image.tag # "ok" THEN overlay_image
              ELSE Ok(resize(overlay_image.img, image_witdh, image_height))

\* lines 119-165: the closure prepare_layers(image_witdh, image_height)
prepare_layers(image_witdh, image_height, layer) ==
    IF layer.content_type = NoMime THEN Prepared(Panicked, "none")
    ELSE IF is_svg(layer)
         THEN Prepared(prepare_svg(image_witdh, image_height, layer), "vector")
         ELSE Prepared(prepare_raster(image_witdh, image_height, layer), "raster")

\* a font database that is loaded on first use only
load_system_fonts_once(loads) == IF loads = 0 THEN 1 ELSE loads

\* line 122: opt.fontdb_mut().load_system_fonts(), given the loads so far
load_system_fonts(loads) == loads + 1

\* a base decoder that guesses the format from the bytes
decode_base_guessed(base) == decode(base.contents, base.contents.kind)

\* lines 172-181: the base image is resolved and decoded as a raster image
decode_base(base) ==
    LET mimetype == base.content_type
    IN  IF mimetype = NoMime THEN Fail(MissingMimeType)
        ELSE IF from_mime_type(mimetype) = "none" THEN Fail(InvalidMimeType(mimetype))
        ELSE decode(base.contents, from_mime_type(mimetype))

\* a fold that starts from an empty canvas of the base image's size
fold_init_blank(img) == [img EXCEPT !.px = [p \in DOMAIN img.px |-> Clear]]

\* line 187: the fold starts from a clone of the decoded base image
fold_init(img) == img

\* an iterator that hands the layers out back to front
next_layer_back(layers, consumed) == layers[Len(layers) - consumed]

\* lines 185-186: the iterator hands the layers out front to back
next_layer(layers, consumed) == layers[consumed + 1]

\* lines 193-196: JpegEncoder over the canvas; a JPEG has between 1 and 65535
\* pixels a side
MaxJpegSide == 65535
write_with_encoder(canvas) ==
    IF canvas.w \in 1 .. MaxJpegSide /\ canvas.h \in 1 .. MaxJpegSide
    THEN [tag |-> "ok", jpeg |-> canvas]
    ELSE [tag |-> "err", jpeg |-> NoImage]

\* ------------------------------------------------------------ request catalogues
TransformRequest(image, layers) == [image |-> image, layers |-> layers]
NoRequest == TransformRequest(FieldData(NoMime, Garbage), <<>>)

\* every declared content type over bytes of every kind
KindBytes == {Garbage} \cup {Bytes(k, 1, 1, "solid", 1) : k \in {"png", "jpeg", "svg"}}
DeclaredPayloads == {FieldData(m, b) : m \in Mimes, b \in KindBytes}

\* well-declared pictures of the extreme sizes, for the fold
CornerDims == {1, MaxDim} \X {1, MaxDim}
AllDims == (1 .. MaxDim) \X (1 .. MaxDim)
Png(d, pat, c) == FieldData(PngMime, Bytes("png", d[1], d[2], pat, c))
Jpeg(d, pat, c) == FieldData(JpegMime, Bytes("jpeg", d[1], d[2], pat, c))
Svg(d, pat, c) == FieldData(SvgMime, Bytes("svg", d[1], d[2], pat, c))
Full == <<MaxDim, MaxDim>>
Unit == <<1, 1>>
LayerPictures ==
    {Png(d, "solid", c) : d \in CornerDims, c \in Colours}
        \cup {Png(d, "corner", NumColours) : d \in CornerDims}
        \cup {Svg(d, "solid", 1) : d \in CornerDims}
        \cup {Png(Unit, "grey", 0), Png(Unit, "clear", 0), Jpeg(Unit, "solid", 1)}
BasePictures ==
    {Png(d, "solid", 1) : d \in CornerDims}
        \cup {Png(Full, "grey", 0), Png(Full, "clear", 0), Jpeg(Full, "solid", NumColours)}

\* one layer of every size over a base of every size
SizedLayers ==
    {Png(d, "corner", 1) : d \in AllDims} \cup {Svg(d, "corner", 1) : d \in AllDims}
        \cup {Png(d, "solid", NumColours) : d \in AllDims}
SizedBases == {Png(d, "solid", 1) : d \in AllDims}

\* a process serving several requests, with and without SVG layers
ProcessLayers ==
    {Svg(Unit, "solid", 1), Png(Unit, "solid", 1), FieldData(SvgMime, Garbage),
     FieldData(PngMime, Garbage)}
ProcessBases == {Png(Unit, "solid", 1), FieldData(PngMime, Garbage)}

\* ------------------------------------------------------------ state
VARIABLES
    pc,            \* where create_document stands: idle, base, fold, done
    request,       \* payload: the TransformRequest being served
    image,         \* the decoded base image
    acc,           \* the fold's accumulator
    consumed,      \* layers the iterator has handed to prepare_layers
    composited,    \* overlay calls made
    routes,        \* the branch prepare_layers took for each consumed layer
    prepared,      \* the layer images handed to overlay, in the order of the calls
    result,        \* what the handler returns
    failedAt,      \* the stage that produced an error: none, base, layer, encode
    encoded,       \* the canvas given to the JPEG encoder (NoImage: never called)
    default,       \* the response body
    fontLoads,     \* calls of load_system_fonts in this process
    loadsBefore,   \* fontLoads when the current request arrived
    served         \* requests answered by this process

vars == <<pc, request, image, acc, consumed, composited, routes, prepared, result,
          failedAt, encoded, default, fontLoads, loadsBefore, served>>

Fresh ==
    /\ image = NoImage
    /\ acc = NoImage
    /\ consumed = 0
    /\ composited = 0
    /\ routes = <<>>
    /\ prepared = <<>>
    /\ result = Pending
    /\ failedAt = "none"
    /\ encoded = NoImage
    /\ default = NoImage

\* the handler's locals as a new call finds them
Reset ==
    /\ image' = NoImage
    /\ acc' = NoImage
    /\ consumed' = 0
    /\ composited' = 0
    /\ routes' = <<>>
    /\ prepared' = <<>>
    /\ result' = Pending
    /\ failedAt' = "none"
    /\ encoded' = NoImage
    /\ default' = NoImage

Init ==
    /\ pc = "idle"
    /\ request = NoRequest
    /\ Fresh
    /\ fontLoads = 0
    /\ loadsBefore = 0
    /\ served = 0

\* the multipart extractor hands create_document a request: a base payload of
\* B and at most n layers of L, while the process has served fewer than limit
Receive(B, L, n, limit) ==
    /\ pc = "idle"
    /\ served < limit
    /\ pc' = "base"
    /\ \E b \in B, k \in 0 .. n :
          \E ls \in [1 .. k -> L] : request' = TransformRequest(b, ls)
    /\ Reset
    /\ loadsBefore' = fontLoads
    /\ UNCHANGED <<fontLoads, served>>

\* lines 171-181
DecodeBase ==
    /\ pc = "base"
    /\ LET r == decode_base(request.image)
       IN  IF r.tag = "ok"
           THEN /\ image' = r.img
                /\ acc' = fold_init(r.img)
                /\ pc' = "fold"
                /\ UNCHANGED <<result, failedAt>>
           ELSE /\ result' = r.err
                /\ failedAt' = "base"
                /\ pc' = "done"
                /\ UNCHANGED <<image, acc>>
    /\ UNCHANGED <<request, consumed, composited, routes, prepared, encoded, default,
                   fontLoads, loadsBefore, served>>

\* lines 183-190: one round of try_fold over the lazily mapped iterator
FoldStep ==
    /\ pc = "fold"
    /\ consumed < Len(request.layers)
    /\ LET layer == next_layer(request.layers, consumed)
           r == prepare_layers(image.w, image.h, layer)
       IN  /\ consumed' = consumed + 1
           /\ routes' = Append(routes, r.route)
           /\ fontLoads' = IF r.route = "vector" THEN load_system_fonts(fontLoads)
                           ELSE fontLoads
           /\ IF r.tag = "ok"
              THEN /\ acc' = overlay(acc, r.img)
                   /\ composited' = composited + 1
                   /\ prepared' = Append(prepared, r.img)
                   /\ UNCHANGED <<pc, result, failedAt>>
              ELSE /\ result' = r.err
                   /\ failedAt' = "layer"
                   /\ pc' = "done"
                   /\ UNCHANGED <<acc, composited, prepared>>
    /\ UNCHANGED <<request, image, encoded, default, loadsBefore, served>>

\* JPEG bytes of a canvas: the alpha channel is not stored
jpeg_bytes(canvas) ==
    [kind |-> "jpeg",
     img |-> [canvas EXCEPT !.color = IF canvas.color = "l8" THEN "l8" ELSE "rgb8",
                            !.px = [p \in Coords(canvas.w, canvas.h) |->
                                        Opaque(canvas.px[p].rgb)]]]

\* lines 192-200
Encode ==
    /\ pc = "fold"
    /\ consumed = Len(request.layers)
    /\ encoded' = acc
    /\ LET w == write_with_encoder(acc)
       IN  IF w.tag = "ok"
           THEN /\ default' = jpeg_bytes(w.jpeg)
                /\ result' = OkResponse
                /\ UNCHANGED failedAt
           ELSE /\ result' = EncodingFailure
                /\ failedAt' = "encode"
                /\ UNCHANGED default
    /\ pc' = "done"
    /\ UNCHANGED <<request, image, acc, consumed, composited, routes, prepared,
                   fontLoads, loadsBefore, served>>

\* the response (or the panic) leaves the handler; the process goes on
Respond ==
    /\ pc = "done"
    /\ pc' = "idle"
    /\ served' = served + 1
    /\ request' = NoRequest
    /\ Reset
    /\ loadsBefore' = fontLoads
    /\ UNCHANGED fontLoads

Handler == DecodeBase \/ FoldStep \/ Encode \/ Respond

\* one request: over every declared content type and kind of bytes, or of
\* well-declared pictures, or of one layer of any size
ReceiveDeclared == Receive(DeclaredPayloads, DeclaredPayloads, MaxLayers, 1)
ReceivePictures == Receive(BasePictures, LayerPictures, MaxLayers, 1)
ReceiveSized == Receive(SizedBases, SizedLayers, 1, 1)
Next == ReceiveDeclared \/ ReceivePictures \/ ReceiveSized \/ Handler
Spec == Init /\ [][Next]_vars

\* the process over its lifetime: requests one after the other (handlers share
\* no state, so concurrent requests act on the process as in some order)
ReceiveNext == Receive(ProcessBases, ProcessLayers, MaxLayers, MaxRequests)
NextProcess == ReceiveNext \/ Handler
SpecProcess == Init /\ [][NextProcess]_vars

\* ------------------------------------------------------------ vocabulary of the properties
Layers == request.layers
BaseDecoded == image # NoImage
Succeeded == pc = "done" /\ result = OkResponse
Dims(img) == <<img.w, img.h>>

\* the design's resolver (spec 4.1): the raster table and what each stage
\* reports for a payload
SupportedRaster == {PngMime, JpegMime}
Codec(m) == IF m = PngMime THEN "png" ELSE "jpeg"
LayerError(layer) ==
    LET m == layer.content_type
    IN  CASE m = NoMime -> MissingMimeType
          [] m = SvgMime -> IF layer.contents.kind = "svg" THEN Pending
                            ELSE SvgParserFailure
          [] m \in SupportedRaster -> IF layer.contents.kind = Codec(m) THEN Pending
                                      ELSE DecodingFailure
          [] OTHER -> InvalidMimeType(m)
BaseError(base) ==
    IF base.content_type = SvgMime THEN InvalidMimeType(SvgMime) ELSE LayerError(base)
FailingLayers(req) == {k \in 1 .. Len(req.layers) : LayerError(req.layers[k]) # Pending}
FirstFailingLayer(req) == CHOOSE k \in FailingLayers(req) : \A j \in FailingLayers(req) : k <= j
NoOverlayTouched ==
    consumed = 0 /\ composited = 0 /\ routes = <<>> /\ fontLoads = loadsBefore

\* a fully opaque raster payload, declared as what it is
OpaqueRaster(layer) ==
    /\ layer.contents.kind \in {"png", "jpeg"}
    /\ layer.content_type \in SupportedRaster
    /\ layer.contents.kind = Codec(layer.content_type)
    /\ layer.contents.pat = "solid"
SameAspect(layer) == layer.contents.w * image.h = layer.contents.h * image.w

\* ------------------------------------------------------------ C1
\* C1 (as claimed): once the base image has decoded and every earlier layer has
\* been composited, a layer without a declared content type ends the request
\* with the error value MissingMimeType.
C1_MissingMimeTypeReturned ==
    (/\ pc = "done"
     /\ BaseDecoded
     /\ consumed >= 1
     /\ composited = consumed - 1
     /\ Layers[consumed].content_type = NoMime)
        => result = MissingMimeType

RECURSIVE Accumulate(_, _, _)
Accumulate(base, layers, k) ==
    IF k = 0 THEN base
    ELSE overlay(Accumulate(base, layers, k - 1),
                 prepare_layers(base.w, base.h, layers[k]).img)

\* C3: while the fold runs the accumulator is the left fold of overlay over the
\* layers consumed so far, in input order, starting from the base image; a
\* request that succeeds has composited every layer exactly once, in request
\* order, and encodes that fold.
C3_CanvasIsLeftFold ==
    /\ (pc = "fold" => acc = Accumulate(image, Layers, consumed))
    /\ Succeeded =>
          /\ composited = Len(Layers)
          /\ Len(prepared) = Len(Layers)
          /\ \A k \in 1 .. Len(Layers) :
                prepared[k] = prepare_layers(image.w, image.h, Layers[k]).img
          /\ encoded = Accumulate(image, Layers, Len(Layers))

C3_Witness ==
    /\ Succeeded
    /\ Len(Layers) = 2
    /\ OpaqueRaster(Layers[1]) /\ OpaqueRaster(Layers[2])
    /\ Layers[1].contents.c # Layers[2].contents.c
    /\ encoded # image

\* ------------------------------------------------------------ C4
\* C4 (as claimed): when some stage fails, the request returns the error of the
\* first failing stage (the base, else the lowest failing layer), consumes no
\* layer after it, produces no bytes and never calls the encoder; and the
\* encoder is only ever given a canvas with every layer composited.
C4_FirstErrorReturned ==
    /\ encoded # NoImage => composited = Len(Layers)
    /\ pc = "done" =>
          IF BaseError(request.image) # Pending
          THEN /\ result = BaseError(request.image)
               /\ consumed = 0
               /\ default = NoImage /\ encoded = NoImage
          ELSE FailingLayers(request) # {} =>
                  LET k == FirstFailingLayer(request)
                  IN  /\ result = LayerError(Layers[k])
                      /\ consumed = k /\ composited = k - 1
                      /\ default = NoImage /\ encoded = NoImage

\* ------------------------------------------------------------ C5
\* C5: from the moment the base image is decoded, the accumulator has the
\* width and height the base image's bytes encode, whatever layers have been
\* composited, and so has the canvas given to the encoder.
C5_CanvasSizeFixed ==
    BaseDecoded =>
        /\ Dims(image) = <<request.image.contents.w, request.image.contents.h>>
        /\ Dims(acc) = Dims(image)
        /\ encoded # NoImage => Dims(encoded) = Dims(image)

C5_Witness ==
    /\ Succeeded
    /\ composited = Len(Layers)
    /\ Len(Layers) >= 1
    /\ \E k \in 1 .. Len(prepared) : Dims(prepared[k]) # Dims(image)

\* ------------------------------------------------------------ C6
\* C6 (as claimed): the process loads the system fonts at most once.
C6_FontsLoadedAtMostOnce == fontLoads <= 1

SvgLayersConsumed == {k \in 1 .. consumed : Layers[k].content_type = SvgMime}

\* C6 (amended): the system fonts are loaded once for every layer declared
\* "image/svg+xml" that prepare_layers is given, and never otherwise: the loads
\* of a request are as many as the SVG-declared layers it has consumed.
C6_FontsLoadedPerSvgLayer ==
    /\ fontLoads = loadsBefore + Cardinality(SvgLayersConsumed)
    /\ pc = "idle" => fontLoads = loadsBefore

C6_Witness ==
    /\ served >= 1
    /\ loadsBefore >= 1
    /\ pc = "done"
    /\ Cardinality(SvgLayersConsumed) >= 1

\* ------------------------------------------------------------ C7
\* C7: a consumed layer with a declared content type is routed by that string
\* alone: "image/svg+xml" takes the vector branch and fails with
\* SvgParserFailure when its bytes are not an SVG document (a valid raster image
\* included); a supported raster type takes the raster branch with its codec
\* and fails with DecodingFailure when the bytes are not of that codec (an SVG
\* document included); any other string fails with InvalidMimeType carrying it.
C7_RouteByDeclaredType ==
    \A k \in 1 .. consumed :
        LET layer == Layers[k]
            m == layer.content_type
            FailedHereWith(e) ==
                k = consumed /\ pc = "done" /\ failedAt = "layer" /\ result = e
        IN  m # NoMime =>
              CASE m = SvgMime ->
                     /\ routes[k] = "vector"
                     /\ IF layer.contents.kind = "svg"
                        THEN k <= composited
                        ELSE FailedHereWith(SvgParserFailure)
                [] m \in SupportedRaster ->
                     /\ routes[k] = "raster"
                     /\ IF layer.contents.kind = Codec(m)
                        THEN k <= composited
                        ELSE FailedHereWith(DecodingFailure)
                [] OTHER -> FailedHereWith(InvalidMimeType(m))

C7_Witness ==
    /\ pc = "done"
    /\ consumed = 2
    /\ Layers[1].content_type = JpegMime /\ Layers[1].contents.kind = "jpeg"
    /\ Layers[2].content_type = SvgMime /\ Layers[2].contents.kind = "png"
    /\ result = SvgParserFailure

\* ------------------------------------------------------------ C8
\* C8: a request without layers whose base image decodes gives the encoder a
\* canvas equal to the decoded base image, pixel for pixel, and succeeds with
\* the JPEG bytes of that image.
C8_ZeroLayers ==
    (pc = "done" /\ BaseDecoded /\ Len(Layers) = 0) =>
        /\ encoded = decode(request.image.contents, request.image.contents.kind).img
        /\ encoded = image
        /\ result = OkResponse
        /\ default = jpeg_bytes(image)

C8_Witness ==
    /\ pc = "done"
    /\ Len(Layers) = 0
    /\ result = OkResponse
    /\ \E p \in DOMAIN encoded.px : encoded.px[p].a = 0

C10_BaseResolvedFirst ==
    LET m == request.image.content_type
        EndsWith(e) ==
            /\ pc = "done" /\ failedAt = "base" /\ result = e
            /\ ~BaseDecoded
            /\ NoOverlayTouched
    IN  pc \in {"fold", "done"} =>
          CASE m = NoMime -> EndsWith(MissingMimeType)
            [] m # NoMime /\ m \notin SupportedRaster -> EndsWith(InvalidMimeType(m))
            [] m \in SupportedRaster /\ request.image.contents.kind # Codec(m) ->
                 EndsWith(DecodingFailure)
            [] OTHER -> BaseDecoded /\ failedAt # "base"

C10_Witness ==
    /\ pc = "done"
    /\ request.image.content_type = SvgMime
    /\ request.image.contents.kind = "svg"
    /\ Len(Layers) = MaxLayers
    /\ Layers[1].content_type = NoMime
    /\ result = InvalidMimeType(SvgMime)

=============================================================================
